---- MODULE Spec2Model ----
(***************************************************************************)
(* A model of the webppl compiler driver (src/src/main.js) and of the      *)
(* optimization harness (src/src/inference/optimize.js).                    *)
(*                                                                         *)
(* Four parts of the program are modelled, each with its own variables and *)
(* its own specification:                                                  *)
(*   SpecTrampoline  runTrampoline, the driver loop                         *)
(*   SpecCompile     compile, applyCaching, copyAst, concatPrograms         *)
(*   SpecRun         run, requireHeader, checkGradients/logGradWarning      *)
(*                   and webpplEval                                        *)
(*   SpecOptimize    Optimize                                               *)
(***************************************************************************)
EXTENDS Integers, Sequences, FiniteSets, TLC

VARIABLES
  \* ---- runTrampoline (main.js:210-214)
  tChain,      \* number of thunks t0..t(n-1) of the chain handed to the loop
  tFinal,      \* the ordinary value the last thunk returns
  t,           \* the local variable t of runTrampoline
  tpc,         \* position: "test", "call", "inThunk", "returned", "threw"
  tInvoked,    \* indexes of the thunks invoked so far, in order
  tStack,      \* thunk invocations the driver holds open (native frames)
  tResult,     \* what runTrampoline gave its caller
  \* ---- compile (main.js:133-190)
  cHeap,       \* the AST nodes in memory: node id -> node (a sequence)
  cHeap0,      \* the heap as it was when options.extra was built (never written)
  cAddFilename, \* how the addFilename of this process treats its argument
  cExtra,      \* options.extra.asts: the root ids of the pre-parsed ASTs
  cReq,        \* per extra AST: what caching.transformRequired answers for it
  cNoDir,      \* per extra AST: what caching.hasNoCachingDirective answers
  cProgReq,    \* the same two answers for the main program of this call
  cProgNoDir,
  cOptTransforms, \* options.transforms of this call: <<>> when absent, else
               \* <<list>>
  cpc,         \* position in compile: "idle", "caching", "concat", "freevars",
               \* "transforms", "generate"
  cIdx,        \* index of the next transform of the list
  cAsts,       \* the array asts: root ids, one per unit
  cAst,        \* the root of the concatenated program (0 before concatPrograms)
  cLog,        \* the passes applied in this call, in order, with their unit
  cCalls,      \* compile calls finished so far
  \* ---- run (main.js:192-202), requireHeader (main.js:26-44) and the
  \* gradient warnings of optimize.js:161-192
  rpc,         \* position of run: "idle", "compile", "invoke", "program", "catch"
  rRuns,       \* calls of run that have ended
  rK,          \* the continuation k the caller gave to this call of run
  rGen,        \* options.generateCode of this call
  rMap,        \* codeAndMap.map of this call (0: undefined)
  rStores,     \* every store object created so far: id -> the runs that wrote it
  rCalls,      \* the invocations of the compiled program in this call of run
  rSteps,      \* steps the compiled program has taken in this call
  rKCalls,     \* invocations of k in this call
  rThrown,     \* the exception thrown while the program ran, and the values
               \* of rKCalls and rSteps then (<<>>: none)
  rReported,   \* what printFriendlyStackTrace was given in this call
  rOutcome,    \* how the last call of run ended for its caller
  rGlobals,    \* the properties written on the global object
  issuedGradWarning,  \* optimize.js:184, the keys of the table
  rIssuedHere, \* the keys this call of run has added to the table
  rWarned,     \* console.warn: per (name, index, problem), warnings so far
  rOccurred,   \* the (name, index, problem) that checkGradients has met so far
  rEval,       \* the call of webpplEval made by the running program, if any
  \* ---- Optimize (optimize.js:30-159)
  opc,         \* position of Optimize: "idle", "loop", "estimator", "onFinish",
               \* "done", "threw"
  oOpts,       \* the options of the call
  oStructs,    \* parameter objects in memory: id -> ids of the tensors of the
               \* parameter "w" (<<>>: the object has no property)
  oTensors,    \* tensors in memory: id -> value
  oParams0,    \* the value of options.params when Optimize was called
  paramObj,    \* optimize.js:64 (0 before it is set)
  oI,          \* the loop index i
  oEst,        \* what the estimator passes to its continuation
  history,     \* optimize.js:70
  oLog,        \* the progress log file: state, rows written, ncalls
  oEvents,     \* what this call of Optimize has done so far, in order
  oFinish,     \* the calls of options.onFinish: store, address, history
  oK           \* the calls of the continuation k: store and parameter object

tvars == <<tChain, tFinal, t, tpc, tInvoked, tStack, tResult>>
cvars == <<cHeap, cHeap0, cAddFilename, cExtra, cReq, cNoDir, cProgReq, cProgNoDir,
           cOptTransforms, cpc, cIdx, cAsts, cAst, cLog, cCalls>>

rvars == <<rpc, rRuns, rK, rGen, rMap, rStores, rCalls, rSteps, rKCalls,
           rThrown, rReported, rOutcome, rGlobals, issuedGradWarning,
           rIssuedHere, rWarned, rOccurred, rEval>>

ovars == <<opc, oOpts, oStructs, oTensors, oParams0, paramObj, oI, oEst,
           history, oLog, oEvents, oFinish, oK>>

vars == <<tvars, cvars, rvars, ovars>>

\* What the actions of one part leave alone: the variables of the others.
besidesT == <<cvars, rvars, ovars>>
besidesC == <<tvars, rvars, ovars>>
besidesR == <<tvars, cvars, ovars>>
besidesO == <<tvars, cvars, rvars>>

-----------------------------------------------------------------------------
(* Bounds *)

MaxChain == 3
MaxExtra == 2      \* ASTs in options.extra
MaxBody == 2       \* statements in the body of a pre-parsed AST
MaxCompiles == 2   \* compile calls that reuse the same options.extra
MaxRuns == 2       \* calls of run in one process
MaxProgSteps == 2  \* steps the compiled program takes in one run
MaxSteps == 2      \* options.steps of Optimize
MaxContinues == 3  \* calls a custom onFinish makes of its continuation

-----------------------------------------------------------------------------
(* JavaScript values, as far as the driver loop tells them apart *)

\* A value is a record: a thunk (a function of no arguments, the id-th of
\* its chain) or an ordinary value, named by its literal.
Value(lit) == [kind |-> "value", id |-> -1, lit |-> lit]
Thunk(i) == [kind |-> "thunk", id |-> i, lit |-> "function"]

Falsy == {Value("undefined"), Value("null"), Value("false"), Value("0"), Value("''")}
TruthyNonCallable == {Value("1"), Value("'a'"), Value("{}")}
OrdinaryValues == Falsy \cup TruthyNonCallable
Undefined == Value("undefined")

IsThunk(v) == v.kind = "thunk"

\* ToBoolean, as `while (t)` applies it: a function is truthy.
Truthy(v) == IsThunk(v) \/ v \in TruthyNonCallable

\* What thunk i of the chain returns when invoked: the next thunk, or the
\* final ordinary value after the last one.
ChainAt(n, v, i) == IF i < n THEN Thunk(i) ELSE v

\* main.js:211, the loop condition `while (t)`.
LoopContinues_OnlyFunctions(v) == IsThunk(v)
LoopContinues(v) == Truthy(v)

\* The frames the driver holds open after it has called a thunk (the call
\* expression t() of main.js:212), and after that call has returned.
FramesAfterCall(stack, i) == Append(stack, i)
FramesAfterReturn_Nested(stack) == stack
FramesAfterReturn(stack) == SubSeq(stack, 1, Len(stack) - 1)

-----------------------------------------------------------------------------
(* runTrampoline *)

TStart ==
  /\ tChain \in 0..MaxChain
  /\ tFinal \in OrdinaryValues
  /\ t = ChainAt(tChain, tFinal, 0)
  /\ tpc = "test"
  /\ tInvoked = <<>>
  /\ tStack = <<>>
  /\ tResult = Value("none")

\* main.js:211  while (t): leave the loop on a falsy t; the function has no
\* return statement, so its caller gets undefined.
runTrampoline_Test ==
  /\ UNCHANGED besidesT
  /\ tpc = "test"
  /\ IF LoopContinues(t)
       THEN /\ tpc' = "call"
            /\ tResult' = tResult
       ELSE /\ tpc' = "returned"
            /\ tResult' = Undefined
  /\ UNCHANGED <<tChain, tFinal, t, tInvoked, tStack>>

\* main.js:212  the call t(): a callable t is entered; any other value makes
\* the call expression throw a TypeError, which leaves runTrampoline.
runTrampoline_Call ==
  /\ UNCHANGED besidesT
  /\ tpc = "call"
  /\ IF IsThunk(t)
       THEN /\ tStack' = FramesAfterCall(tStack, t.id)
            /\ tInvoked' = Append(tInvoked, t.id)
            /\ tpc' = "inThunk"
            /\ UNCHANGED tResult
       ELSE /\ tpc' = "threw"
            /\ tResult' = Value("TypeError")
            /\ UNCHANGED <<tStack, tInvoked>>
  /\ UNCHANGED <<tChain, tFinal, t>>

\* main.js:212  the thunk returns and its result is assigned to t.
runTrampoline_Assign ==
  /\ UNCHANGED besidesT
  /\ tpc = "inThunk"
  /\ t' = ChainAt(tChain, tFinal, tStack[Len(tStack)] + 1)
  /\ tStack' = FramesAfterReturn(tStack)
  /\ tpc' = "test"
  /\ UNCHANGED <<tChain, tFinal, tInvoked, tResult>>

TIdle ==
  /\ tChain = 0
  /\ tFinal = Undefined
  /\ t = Undefined
  /\ tpc = "returned"
  /\ tInvoked = <<>>
  /\ tStack = <<>>
  /\ tResult = Undefined

TNext == runTrampoline_Test \/ runTrampoline_Call \/ runTrampoline_Assign

-----------------------------------------------------------------------------
(* ASTs in memory *)

\* A node has a type, the ids of its child nodes in order, and a mark that
\* tells whether a pass has rewritten it in place since it was parsed.
Node(type, kids) == [type |-> type, kids |-> kids, mark |-> "parsed"]

RECURSIVE Reach(_, _)
\* The ids of the nodes of the tree rooted at id.
Reach(h, id) ==
  {id} \cup UNION {Reach(h, h[id].kids[j]) : j \in 1..Len(h[id].kids)}

RECURSIVE Tree(_, _)
\* The tree rooted at id as a value: what a structural comparison sees.
Tree(h, id) ==
  [type |-> h[id].type, mark |-> h[id].mark,
   kids |-> [j \in 1..Len(h[id].kids) |-> Tree(h, h[id].kids[j])]]

\* A pass that rewrites its input in place: every node of the tree is written.
RewriteInPlace(h, ids) ==
  [i \in 1..Len(h) |-> IF i \in ids THEN [h[i] EXCEPT !.mark = "rewritten"]
                                    ELSE h[i]]

\* What a parser leaves in memory for a program of n statements: per
\* statement an expression node and the statement node over it, then the
\* Program node, which is the root (the last node allocated).
RECURSIVE ParseInto(_, _, _)
ParseInto(h, n, stmts) ==
  IF n = 0
    THEN [heap |-> Append(h, Node("Program", stmts)), id |-> Len(h) + 1]
    ELSE LET h1 == Append(h, Node("Expression", <<>>))
             h2 == Append(h1, Node("Statement", <<Len(h1)>>))
         IN ParseInto(h2, n - 1, Append(stmts, Len(h2)))

\* main.js:55-62
parse(h, n) == ParseInto(h, n, <<>>)

\* main.js:64-68, 121-125: the ASTs of the packages, parsed one after another.
RECURSIVE parseAllPairs(_, _, _)
parseAllPairs(h, lens, roots) ==
  IF lens = <<>>
    THEN [heap |-> h, ids |-> roots]
    ELSE LET p == parse(h, Head(lens))
         IN parseAllPairs(p.heap, Tail(lens), Append(roots, p.id))

\* main.js:139-145. A fresh node for the object, and for every property that
\* holds an object a copy of it, recursively.
RECURSIVE copyAst(_, _), copyKids(_, _, _)
copyAst_Shallow(h, id) == [heap |-> Append(h, h[id]), id |-> Len(h) + 1]
copyAst(h, id) ==
  LET r == copyKids(h, h[id].kids, <<>>)
  IN [heap |-> Append(r.heap, [h[id] EXCEPT !.kids = r.ids]),
      id |-> Len(r.heap) + 1]
copyKids(h, kids, acc) ==
  IF kids = <<>>
    THEN [heap |-> h, ids |-> acc]
    ELSE LET c == copyAst(h, Head(kids))
         IN copyKids(c.heap, Tail(kids), Append(acc, c.id))

\* main.js:164  addFilename(programAst, filename) puts the file name on the
\* nodes of the program: it either writes on the tree it is given and returns
\* it, or returns another tree that carries the name. Which of the two is a
\* property of the function, the same in every call.
AddFilenameModes == {"inPlace", "newTree"}
addFilename(h, id, mode) ==
  IF mode = "inPlace"
    THEN [heap |-> RewriteInPlace(h, Reach(h, id)), id |-> id]
    ELSE LET c == copyAst(h, id)
         IN [heap |-> RewriteInPlace(c.heap, Reach(c.heap, c.id)), id |-> c.id]

\* main.js:165  extra.asts.map(copyAst)
RECURSIVE mapCopyAst(_, _, _)
mapCopyAst(h, roots, acc) ==
  IF roots = <<>>
    THEN [heap |-> h, ids |-> acc]
    ELSE LET c == copyAst(h, Head(roots))
         IN mapCopyAst(c.heap, Tail(roots), Append(acc, c.id))

\* main.js:46-53. A new Program node whose body is the concatenation of the
\* bodies: the statements themselves are shared with the inputs.
RECURSIVE ConcatBodies(_, _)
ConcatBodies(h, roots) ==
  IF roots = <<>> THEN <<>>
  ELSE h[Head(roots)].kids \o ConcatBodies(h, Tail(roots))
concatPrograms(h, roots) ==
  [heap |-> Append(h, Node("Program", ConcatBodies(h, roots))),
   id |-> Len(h) + 1]

-----------------------------------------------------------------------------
(* compile *)

\* main.js:152-160
DefaultTransforms_VarargsFirst ==
  <<"thunkify", "naming", "cps", "store", "varargs", "optimize", "trampoline">>
DefaultTransforms ==
  <<"thunkify", "naming", "cps", "store", "optimize", "varargs", "trampoline">>

\* main.js:152  options.transforms || [...]
UserTransforms == <<"userTransform">>
transforms ==
  IF cOptTransforms = <<>> THEN DefaultTransforms ELSE cOptTransforms[1]

\* The units of a compilation are numbered 1..N: the pre-parsed ASTs in
\* their order, then the main program (main.js:165).
NUnits == Len(cExtra) + 1
transformRequired(u) == IF u <= Len(cExtra) THEN cReq[u] ELSE cProgReq
hasNoCachingDirective(u) == IF u <= Len(cExtra) THEN cNoDir[u] ELSE cProgNoDir

\* main.js:166
doCaching == \E u \in 1..NUnits : transformRequired(u)

\* main.js:135: the units applyCaching hands to caching.transform.
CachingApplies_IfRequired(u) == transformRequired(u)
CachingApplies(u) == ~hasNoCachingDirective(u)

\* The stage that follows the current one. main.js:172-177: the stages are
\* listed in the order in which they are applied (the first one takes the
\* array asts, concatPrograms asserts that its input is an array).
pipeline(stages) == stages
CompileStages_FreevarsFirst == <<"freevars", "caching", "concat", "transforms", "generate">>
CompileStages == <<"caching", "concat", "freevars", "transforms", "generate">>
StageAfter(stage) ==
  LET order == pipeline(CompileStages)
      i == CHOOSE j \in 1..Len(order) : order[j] = stage
  IN order[i + 1]
FirstStage == pipeline(CompileStages)[1]

Logged(pass, u) == [pass |-> pass, unit |-> u]

CStart ==
  /\ \E n \in 1..MaxExtra : \E len \in 1..MaxBody :
       LET p == parseAllPairs(<<>>, [i \in 1..n |-> len], <<>>)
       IN /\ cHeap = p.heap
          /\ cHeap0 = p.heap
          /\ cExtra = p.ids
          /\ cReq \in [1..n -> BOOLEAN]
          /\ cNoDir \in [1..n -> BOOLEAN]
  /\ cAddFilename \in AddFilenameModes
  /\ cProgReq = FALSE
  /\ cProgNoDir = FALSE
  /\ cOptTransforms = <<>>
  /\ cpc = "idle"
  /\ cIdx = 0
  /\ cAsts = <<>>
  /\ cAst = 0
  /\ cLog = <<>>
  /\ cCalls = 0

CIdle ==
  /\ cHeap = <<>>
  /\ cHeap0 = <<>>
  /\ cExtra = <<>>
  /\ cReq = <<>>
  /\ cNoDir = <<>>
  /\ cAddFilename = "inPlace"
  /\ cProgReq = FALSE
  /\ cProgNoDir = FALSE
  /\ cOptTransforms = <<>>
  /\ cpc = "idle"
  /\ cIdx = 0
  /\ cAsts = <<>>
  /\ cAst = 0
  /\ cLog = <<>>
  /\ cCalls = 0

\* main.js:147-166. A call of compile with options.extra: the program is
\* parsed and given to addFilename, the pre-parsed ASTs are copied and what
\* addFilename returned is appended. The nodes of an earlier call are no
\* longer reachable and are dropped.
compile_Begin ==
  /\ UNCHANGED besidesC
  /\ cpc = "idle"
  /\ cCalls < MaxCompiles
  /\ \E req \in BOOLEAN, nodir \in BOOLEAN,
        trs \in {<<>>, <<UserTransforms>>} :
       LET live == SubSeq(cHeap, 1, Len(cHeap0))
           parsed == parse(live, 1)
           prog == addFilename(parsed.heap, parsed.id, cAddFilename)
           copies == mapCopyAst(prog.heap, cExtra, <<>>)
       IN /\ cProgReq' = req
          /\ cProgNoDir' = nodir
          /\ cOptTransforms' = trs
          /\ cHeap' = copies.heap
          /\ cAsts' = Append(copies.ids, prog.id)
  /\ cpc' = FirstStage
  /\ cIdx' = 1
  /\ cAst' = 0
  /\ cLog' = <<Logged("addFilename", NUnits)>>
  /\ UNCHANGED <<cHeap0, cAddFilename, cExtra, cReq, cNoDir, cCalls>>

\* main.js:173 with 133-137. With doCaching, every unit without the
\* no-caching directive goes through caching.transform, which may rewrite
\* its input in place; the other units are kept as they are.
RECURSIVE CachingLog(_)
CachingLog(u) ==
  IF u = 0 THEN <<>>
  ELSE CachingLog(u - 1) \o
       (IF CachingApplies(u) THEN <<Logged("caching", u)>> ELSE <<>>)

compile_ApplyCaching ==
  /\ UNCHANGED besidesC
  /\ cpc = "caching"
  /\ IF doCaching
       THEN \E inPlace \in BOOLEAN :
              /\ cHeap' = RewriteInPlace(cHeap,
                            UNION {Reach(cHeap, cAsts[u]) :
                                     u \in {v \in 1..NUnits :
                                              inPlace /\ CachingApplies(v)}})
              /\ cLog' = cLog \o CachingLog(NUnits)
       ELSE UNCHANGED <<cHeap, cLog>>
  /\ cpc' = StageAfter("caching")
  /\ UNCHANGED <<cHeap0, cAddFilename, cExtra, cReq, cNoDir, cProgReq, cProgNoDir,
                 cOptTransforms, cIdx, cAsts, cAst, cCalls>>

\* main.js:174
compile_ConcatPrograms ==
  /\ UNCHANGED besidesC
  /\ cpc = "concat"
  /\ LET c == concatPrograms(cHeap, cAsts)
     IN /\ cHeap' = c.heap
        /\ cAst' = c.id
  /\ cLog' = Append(cLog, Logged("concatPrograms", 0))
  /\ cpc' = StageAfter("concat")
  /\ UNCHANGED <<cHeap0, cAddFilename, cExtra, cReq, cNoDir, cProgReq, cProgNoDir,
                 cOptTransforms, cIdx, cAsts, cCalls>>

\* The tree a stage works on: the concatenated program, or before
\* concatPrograms the trees of the array asts.
CurrentNodes ==
  IF cAst # 0 THEN Reach(cHeap, cAst)
  ELSE UNION {Reach(cHeap, cAsts[u]) : u \in 1..Len(cAsts)}

\* main.js:175
compile_Freevars ==
  /\ UNCHANGED besidesC
  /\ cpc = "freevars"
  /\ IF doCaching
       THEN \E inPlace \in BOOLEAN :
              /\ cHeap' = IF inPlace THEN RewriteInPlace(cHeap, CurrentNodes)
                          ELSE cHeap
              /\ cLog' = Append(cLog, Logged("freevars", 0))
       ELSE UNCHANGED <<cHeap, cLog>>
  /\ cpc' = StageAfter("freevars")
  /\ UNCHANGED <<cHeap0, cAddFilename, cExtra, cReq, cNoDir, cProgReq, cProgNoDir,
                 cOptTransforms, cIdx, cAsts, cAst, cCalls>>

\* main.js:176  util.pipeline(transforms): the next transform of the list
\* takes the output of the one before it; it may rewrite its input in place.
compile_Transform ==
  /\ UNCHANGED besidesC
  /\ cpc = "transforms"
  /\ cIdx <= Len(transforms)
  /\ \E inPlace \in BOOLEAN :
       cHeap' = IF inPlace THEN RewriteInPlace(cHeap, CurrentNodes) ELSE cHeap
  /\ cLog' = Append(cLog, Logged(pipeline(transforms)[cIdx], 0))
  /\ cIdx' = cIdx + 1
  /\ UNCHANGED <<cHeap0, cAddFilename, cExtra, cReq, cNoDir, cProgReq, cProgNoDir,
                 cOptTransforms, cpc, cAsts, cAst, cCalls>>

compile_TransformsDone ==
  /\ UNCHANGED besidesC
  /\ cpc = "transforms"
  /\ cIdx > Len(transforms)
  /\ cpc' = StageAfter("transforms")
  /\ UNCHANGED <<cHeap, cHeap0, cAddFilename, cExtra, cReq, cNoDir, cProgReq,
                 cProgNoDir,
                 cOptTransforms, cIdx, cAsts, cAst, cLog, cCalls>>

\* main.js:179-189  the code is generated and compile returns.
compile_Return ==
  /\ UNCHANGED besidesC
  /\ cpc = "generate"
  /\ cpc' = "idle"
  /\ cCalls' = cCalls + 1
  /\ UNCHANGED <<cHeap, cHeap0, cAddFilename, cExtra, cReq, cNoDir, cProgReq,
                 cProgNoDir,
                 cOptTransforms, cIdx, cAsts, cAst, cLog>>

CNext ==
  \/ compile_Begin
  \/ compile_ApplyCaching
  \/ compile_ConcatPrograms
  \/ compile_Freevars
  \/ compile_Transform
  \/ compile_TransformsDone
  \/ compile_Return

-----------------------------------------------------------------------------
(* Gradient warnings: optimize.js:161-192 *)

\* A tensor is the sequence of its elements; the elements are literals.
OkTensor == <<"1", "0">>
ZeroTensor == <<"0", "0">>
InfTensor == <<"1", "Infinity">>

\* optimize.js:161-163  !tensor.anyreduce()
allZero(tensor) == \A j \in 1..Len(tensor) : tensor[j] = "0"
\* optimize.js:165-167  _.all(tensor.data, _.isFinite)
allFinite(tensor) == \A j \in 1..Len(tensor) : tensor[j] \in {"0", "1"}

\* The decimal string of a number, as string concatenation renders it.
Digits == <<"0", "1", "2", "3", "4", "5", "6", "7", "8", "9">>
RECURSIVE NumStr(_)
NumStr(n) ==
  IF n < 10 THEN Digits[n + 1]
  ELSE NumStr(n \div 10) \o Digits[(n % 10) + 1]

\* optimize.js:187
GradKey(name, i, problem) == name \o NumStr(i) \o problem

Triple(name, i, problem) == [name |-> name, i |-> i, problem |-> problem]

\* optimize.js:186-192. st.issued is the table, st.out the warnings printed.
logGradWarning_NoRecord(st, name, i, problem) ==
  [issued |-> st.issued, out |-> Append(st.out, Triple(name, i, problem))]
logGradWarning(st, name, i, problem) ==
  IF GradKey(name, i, problem) \notin st.issued
    THEN [issued |-> st.issued \cup {GradKey(name, i, problem)},
          out |-> Append(st.out, Triple(name, i, problem))]
    ELSE st

\* optimize.js:172-180, the function given to the inner _.each, for the
\* tensors of one parameter from index i on.
RECURSIVE checkGrads(_, _, _, _)
checkGrads(st, name, grads, i) ==
  IF i >= Len(grads) THEN st
  ELSE LET g == grads[i + 1]
           s1 == IF allZero(g) THEN logGradWarning(st, name, i, "zero") ELSE st
           s2 == IF ~allFinite(g) THEN logGradWarning(s1, name, i, "not finite")
                 ELSE s1
       IN checkGrads(s2, name, grads, i + 1)

\* optimize.js:169-182. gradObj is the sequence of its (name, tensors)
\* properties in enumeration order.
RECURSIVE checkGradients(_, _)
checkGradients(st, gradObj) ==
  IF gradObj = <<>> THEN st
  ELSE checkGradients(checkGrads(st, Head(gradObj).name, Head(gradObj).grads, 0),
                      Tail(gradObj))

\* Gradients with len tensors, all of them fine but the one at index bad.
Grads(len, bad, tensor) ==
  [j \in 1..len |-> IF j = bad + 1 THEN tensor ELSE OkTensor]
Param(name, grads) == [name |-> name, grads |-> grads]

\* The gradient objects the estimators hand over in this model.
GradInputs ==
  { <<Param("p1", Grads(1, 0, ZeroTensor))>>,
    <<Param("p", Grads(11, 10, ZeroTensor))>>,
    <<Param("p", Grads(1, 0, InfTensor))>>,
    <<Param("p", Grads(1, 0, ZeroTensor)), Param("p1", Grads(2, 1, InfTensor))>> }

\* optimize.js:171-180  the (name, index, problem) for which checkGradients
\* calls logGradWarning on gradObj.
Problems(gradObj) ==
  UNION { { Triple(gradObj[m].name, j - 1, "zero") :
              j \in {j \in 1..Len(gradObj[m].grads) : allZero(gradObj[m].grads[j])} }
          \cup
          { Triple(gradObj[m].name, j - 1, "not finite") :
              j \in {j \in 1..Len(gradObj[m].grads) : ~allFinite(gradObj[m].grads[j])} }
        : m \in 1..Len(gradObj) }

ParamNames == {"p", "p1"}
MaxGradIndex == 10
AllTriples ==
  {Triple(n, i, pr) :
     n \in ParamNames, i \in 0..MaxGradIndex, pr \in {"zero", "not finite"}}

-----------------------------------------------------------------------------
(* run, requireHeader *)

HeaderGlobals == {"header:sample", "header:factor", "header:exit"}
Packages == {"pkgA"}
Continuations == {"k1", "k2"}
Exceptions == {"Error", "RangeError"}

\* main.js:197  the store literal {}: a new object on every evaluation.
NewStore_ModuleLevel(stores) ==
  IF stores = <<>> THEN [stores |-> <<{}>>, id |-> 1]
  ELSE [stores |-> stores, id |-> 1]
NewStore(stores) == [stores |-> Append(stores, {}), id |-> Len(stores) + 1]

\* main.js:197  the arguments of the call of the compiled program.
ProgramCall(stores, k) ==
  LET s == NewStore(stores)
  IN [stores |-> s.stores,
      call |-> [store |-> s.id, empty |-> s.stores[s.id] = {}, k |-> k, a |-> ""]]

\* main.js:198-200  the catch clause: what it hands to the reporter, whether
\* it throws the exception on to the caller of run itself, whether the
\* program is entered again.
Catch_Rethrow(exception, map) ==
  [reports |-> <<>>, rethrow |-> TRUE, resume |-> FALSE]
Catch(exception, map) ==
  [reports |-> <<[exception |-> exception, map |-> map]>>,
   rethrow |-> FALSE, resume |-> FALSE]

\* main.js:147  compile(filename, code, options): the parameters take the
\* arguments by position; a parameter without argument is undefined.
Arg(args, n) == IF n <= Len(args) THEN args[n] ELSE "undefined"
compileParams(args) ==
  [filename |-> Arg(args, 1), code |-> Arg(args, 2), options |-> Arg(args, 3)]

\* main.js:148,163-164,178-185  what compile returns when the parser accepts
\* params.code: with generateCode (the default) the object of escodegen,
\* with the generated code and the map; it is made from params.code, and
\* params.filename names the source in the map.
compile(params) ==
  [type |-> "object", source |-> params.code, sourceMap |-> params.filename]

\* main.js:206  the arguments webpplEval passes to compile.
webpplEvalCompileArgs(code) == <<code>>

\* main.js:207  eval.call(global, x): a string is evaluated as a program,
\* here one that yields the compiled function; any other value is returned
\* as it is.
globalEval(x) ==
  IF x.type = "string" THEN [type |-> "function", source |-> x.source] ELSE x

\* main.js:207  the call of the value eval returned: a function is invoked
\* with (s, k, a); anything else is not callable and the call throws.
callCompiled(f, s, k, a) ==
  IF f.type = "function"
    THEN [invoked |-> <<[source |-> f.source, s |-> s, k |-> k, a |-> a]>>,
          thrown |-> "none"]
    ELSE [invoked |-> <<>>, thrown |-> "TypeError"]

\* The programs given to webpplEval, and the continuation and address of
\* the call inside the running program.
EvalCodes == {"1 + 1"}
EvalK == "kEval"
EvalAddress == "_12"

\* main.js:199  printFriendlyStackTrace(exception, map): the reporter
\* prints and returns, or throws itself; nothing in run catches that.
ReporterOutcomes == {"returns", "throws"}

RStart ==
  /\ rpc = "idle"
  /\ rRuns = 0
  /\ rK = "k1"
  /\ rGen = TRUE
  /\ rMap = 0
  /\ rStores = <<>>
  /\ rCalls = <<>>
  /\ rSteps = 0
  /\ rKCalls = 0
  /\ rThrown = <<>>
  /\ rReported = <<>>
  /\ rOutcome = "none"
  \* main.js:44 and 205: loading the module installs the header and webpplEval.
  /\ rGlobals = HeaderGlobals \cup {"webpplEval"}
  /\ issuedGradWarning = {}
  /\ rIssuedHere = {}
  /\ rWarned = [tr \in AllTriples |-> 0]
  /\ rOccurred = {}
  /\ rEval = <<>>

RIdle == RStart

\* main.js:31-40  requireHeader(path): the properties of the header become
\* properties of the global object.
requireHeader ==
  /\ UNCHANGED besidesR
  /\ rpc = "idle"
  /\ \E pkg \in Packages :
       /\ (pkg \o ":fn") \notin rGlobals
       /\ rGlobals' = rGlobals \cup {pkg \o ":fn"}
  /\ UNCHANGED <<rpc, rRuns, rK, rGen, rMap, rStores, rCalls, rSteps, rKCalls,
                 rThrown, rReported, rOutcome, issuedGradWarning, rIssuedHere,
                 rWarned, rOccurred, rEval>>

\* main.js:192-193  a call of run.
run_Begin ==
  /\ UNCHANGED besidesR
  /\ rpc = "idle"
  /\ rRuns < MaxRuns
  /\ rK' \in Continuations
  /\ rGen' \in BOOLEAN
  /\ rpc' = "compile"
  /\ rMap' = 0
  /\ rCalls' = <<>>
  /\ rSteps' = 0
  /\ rKCalls' = 0
  /\ rThrown' = <<>>
  /\ rReported' = <<>>
  /\ rOutcome' = "none"
  /\ rIssuedHere' = {}
  /\ rEval' = <<>>
  /\ UNCHANGED <<rRuns, rStores, rGlobals, issuedGradWarning, rWarned,
                 rOccurred>>

\* main.js:194  compile returns the code and its map (the map of run number
\* n is n), or, with generateCode false, an AST that has neither; or it
\* throws, and the exception leaves run.
run_Compile ==
  /\ UNCHANGED besidesR
  /\ rpc = "compile"
  /\ \/ /\ rMap' = IF rGen THEN rRuns + 1 ELSE 0
        /\ rpc' = "invoke"
        /\ UNCHANGED <<rRuns, rOutcome>>
     \/ /\ rpc' = "idle"
        /\ rOutcome' = "threw"
        /\ rRuns' = rRuns + 1
        /\ UNCHANGED rMap
  /\ UNCHANGED <<rK, rGen, rStores, rCalls, rSteps, rKCalls, rThrown,
                 rReported, rGlobals, issuedGradWarning, rIssuedHere, rWarned, rOccurred, rEval>>

\* main.js:197  the code is evaluated and the function it yields is called
\* with a new store, k and ''. Without code, eval yields undefined: the
\* arguments are evaluated and the call throws a TypeError.
run_Invoke ==
  /\ UNCHANGED besidesR
  /\ rpc = "invoke"
  /\ LET c == ProgramCall(rStores, rK)
     IN /\ rStores' = c.stores
        /\ IF rGen
             THEN /\ rCalls' = Append(rCalls, c.call)
                  /\ rpc' = "program"
                  /\ UNCHANGED rThrown
             ELSE /\ rThrown' = <<[exception |-> "TypeError", kCalls |-> rKCalls,
                                steps |-> rSteps]>>
                  /\ rpc' = "catch"
                  /\ UNCHANGED rCalls
  /\ UNCHANGED <<rRuns, rK, rGen, rMap, rSteps, rKCalls, rReported, rOutcome,
                 rGlobals, issuedGradWarning, rIssuedHere, rWarned, rOccurred, rEval>>

CurrentStore == rCalls[Len(rCalls)].store

\* The compiled program writes a property of the store it was given.
program_WriteStore ==
  /\ UNCHANGED besidesR
  /\ rpc = "program"
  /\ rSteps < MaxProgSteps
  /\ rStores' = [rStores EXCEPT ![CurrentStore] = @ \cup {rRuns + 1}]
  /\ rSteps' = rSteps + 1
  /\ UNCHANGED <<rpc, rRuns, rK, rGen, rMap, rCalls, rKCalls, rThrown,
                 rReported, rOutcome, rGlobals, issuedGradWarning, rIssuedHere,
                 rWarned, rOccurred, rEval>>

\* The compiled program calls the continuation it was given.
program_CallK ==
  /\ UNCHANGED besidesR
  /\ rpc = "program"
  /\ rSteps < MaxProgSteps
  /\ rKCalls' = rKCalls + 1
  /\ rSteps' = rSteps + 1
  /\ UNCHANGED <<rpc, rRuns, rK, rGen, rMap, rStores, rCalls, rThrown,
                 rReported, rOutcome, rGlobals, issuedGradWarning, rIssuedHere,
                 rWarned, rOccurred, rEval>>

\* The compiled program reaches a step of Optimize that checks a gradient
\* (optimize.js:112-114).
program_CheckGradients ==
  /\ UNCHANGED besidesR
  /\ rpc = "program"
  /\ rSteps < MaxProgSteps
  /\ \E gradObj \in GradInputs :
       LET st == checkGradients([issued |-> issuedGradWarning, out |-> <<>>],
                                gradObj)
       IN /\ issuedGradWarning' = st.issued
          /\ rIssuedHere' = rIssuedHere \cup (st.issued \ issuedGradWarning)
          /\ rWarned' = [tr \in AllTriples |->
                           rWarned[tr] + Cardinality({j \in 1..Len(st.out) :
                                                        st.out[j] = tr})]
          /\ rOccurred' = rOccurred \cup Problems(gradObj)
  /\ rSteps' = rSteps + 1
  /\ UNCHANGED <<rpc, rRuns, rK, rGen, rMap, rStores, rCalls, rKCalls, rThrown,
                 rReported, rOutcome, rGlobals, rEval>>

\* The compiled program throws.
program_Throw ==
  /\ UNCHANGED besidesR
  /\ rpc = "program"
  /\ \E e \in Exceptions :
       rThrown' = <<[exception |-> e, kCalls |-> rKCalls, steps |-> rSteps]>>
  /\ rpc' = "catch"
  /\ UNCHANGED <<rRuns, rK, rGen, rMap, rStores, rCalls, rSteps, rKCalls,
                 rReported, rOutcome, rGlobals, issuedGradWarning, rIssuedHere,
                 rWarned, rOccurred, rEval>>

\* main.js:205-208  the compiled program calls webpplEval(s, k, a, code) with
\* its store, a continuation and an address. The parser is given
\* params.code; it either throws or yields an AST. Whatever is thrown in
\* webpplEval leaves it and the program (which has no handler) and arrives
\* at the catch clause of run.
program_WebpplEval ==
  /\ UNCHANGED besidesR
  /\ rpc = "program"
  /\ rSteps < MaxProgSteps
  /\ \E code \in EvalCodes, parsed \in BOOLEAN :
       LET params == compileParams(webpplEvalCompileArgs(code))
           compiledCode == compile(params)
           res == IF parsed
                    THEN callCompiled(globalEval(compiledCode), CurrentStore,
                                      EvalK, EvalAddress)
                    ELSE [invoked |-> <<>>, thrown |-> "Error"]
       IN /\ rEval' = <<[s |-> CurrentStore, k |-> EvalK, a |-> EvalAddress,
                         code |-> code, compiled |-> params.code,
                         filename |-> params.filename,
                         invoked |-> res.invoked, thrown |-> res.thrown]>>
          /\ IF res.thrown = "none"
               THEN /\ rSteps' = rSteps + 1
                    /\ UNCHANGED <<rpc, rThrown>>
               ELSE /\ rThrown' = <<[exception |-> res.thrown,
                                     kCalls |-> rKCalls, steps |-> rSteps]>>
                    /\ rpc' = "catch"
                    /\ UNCHANGED rSteps
  /\ UNCHANGED <<rRuns, rK, rGen, rMap, rStores, rCalls, rKCalls, rReported,
                 rOutcome, rGlobals, issuedGradWarning, rIssuedHere, rWarned,
                 rOccurred>>

\* The call of the compiled program returns; so does run (main.js:201-202).
program_Return ==
  /\ UNCHANGED besidesR
  /\ rpc = "program"
  /\ rpc' = "idle"
  /\ rOutcome' = "returned"
  /\ rRuns' = rRuns + 1
  /\ UNCHANGED <<rK, rGen, rMap, rStores, rCalls, rSteps, rKCalls, rThrown,
                 rReported, rGlobals, issuedGradWarning, rIssuedHere, rWarned, rOccurred, rEval>>

\* main.js:198-202  the exception is caught and handed to the reporter; when
\* the reporter returns run returns, when it throws its exception leaves
\* run.
run_Catch ==
  /\ UNCHANGED besidesR
  /\ rpc = "catch"
  /\ \E reporter \in ReporterOutcomes :
     LET c == Catch(rThrown[1].exception, rMap)
     IN /\ rReported' = rReported \o c.reports
        /\ IF c.resume
             THEN /\ rpc' = "program"
                  /\ UNCHANGED <<rOutcome, rRuns>>
             ELSE /\ rpc' = "idle"
                  /\ rOutcome' = IF c.rethrow THEN "threw"
                                 ELSE IF reporter = "throws" THEN "reporterThrew"
                                 ELSE "returned"
                  /\ rRuns' = rRuns + 1
  /\ UNCHANGED <<rK, rGen, rMap, rStores, rCalls, rSteps, rKCalls, rThrown,
                 rGlobals, issuedGradWarning, rIssuedHere, rWarned, rOccurred, rEval>>

RNext ==
  \/ requireHeader
  \/ run_Begin
  \/ run_Compile
  \/ run_Invoke
  \/ program_WriteStore
  \/ program_CallK
  \/ program_CheckGradients
  \/ program_Throw
  \/ program_WebpplEval
  \/ program_Return
  \/ run_Catch

-----------------------------------------------------------------------------
(* Optimize *)

\* The object options.params of the caller is object 1.
OptionsParams == 1

\* The value of a parameter object: the values of its tensors.
ParamValue(structs, tensors, id) ==
  [j \in 1..Len(structs[id]) |-> tensors[structs[id][j]]]

\* paramStruct.deepCopy: a new object whose tensors are new tensors with the
\* same values.
deepCopy(structs, tensors, id) ==
  LET n == Len(structs[id])
      newIds == [j \in 1..n |-> Len(tensors) + j]
  IN [structs |-> Append(structs, newIds),
      tensors |-> tensors \o [j \in 1..n |-> tensors[structs[id][j]]],
      id |-> Len(structs) + 1]

\* optimize.js:64
InitialParamObj_NoCopy(structs, tensors, params) ==
  [structs |-> structs, tensors |-> tensors, id |-> params]
InitialParamObj(structs, tensors, params) == deepCopy(structs, tensors, params)

\* optimize.js:31-49  the options of this model: the other options only
\* print, or write the checkpoint file.
\* The options Optimize is called with. The options of the steps (clip,
\* checkGradients) vary with the default onFinish; with a custom onFinish
\* both are on.
OptionSets ==
  {o \in [steps : 0..MaxSteps, clip : {0, 2}, checkGradients : BOOLEAN,
          logProgress : BOOLEAN, checkpointParams : BOOLEAN,
          onFinish : {"default", "custom"}] :
     o.onFinish = "custom" => (o.checkGradients /\ o.clip # 0)}

\* What the estimator hands to its continuation (optimize.js:111): a
\* gradient below or above the clipping threshold, with its objective.
EstimatorResults == {[grad |-> 1, objective |-> 5], [grad |-> 3, objective |-> 7]}

\* paramStruct.norm and paramStruct.clip on a gradient of one component: the
\* gradient is scaled down to the threshold when its norm exceeds it.
norm(g) == g
clip(g, threshold, nrm) == IF nrm > threshold THEN threshold ELSE g

Event(ev, val) == [ev |-> ev, val |-> val]

\* The runs of the continuation that Optimize has given to onFinish.
ContinuationRuns ==
  Cardinality({p \in 1..Len(oEvents) : oEvents[p].ev = "continue"})

\* optimize.js:76  the first line written to the log file.
Header == "index,iter,time,objective"

\* util.cpsLoop(n, func, cont): func is called for i = 0, 1, ... and cont
\* when i has reached n.
cpsLoopDone(n, i) == i = n

\* optimize.js:116-124  the gradient the rest of the step works with.
GradAfterClip_Skipped(opts, g) == g
GradAfterClip(opts, g) ==
  IF opts.clip # 0 THEN clip(g, opts.clip, norm(g)) ELSE g

\* optimize.js:136
PushHistory_Unshift(h, objective) == <<objective>> \o h
PushHistory(h, objective) == Append(h, objective)

\* The stores onFinish may hand to its continuation: the one it was given
\* (optimize.js:40) or another one.
StoreNames == <<"s", "s2">>

\* optimize.js:148,155  function(s) { ...; return k(s, paramObj); }
KArgs(store, pObj) == [s |-> store, params |-> pObj]

\* optimize.js:147,156  the arguments Optimize gives to options.onFinish.
OnFinishArgs_StoreOnly(h) == [s |-> "s", a |-> "undefined", history |-> <<>>]
OnFinishArgs(h) == [s |-> "s", a |-> "a", history |-> h]

OStart ==
  /\ opc = "idle"
  /\ oOpts \in OptionSets
  /\ \E given \in BOOLEAN :
       /\ oStructs = IF given THEN <<(<<1>>)>> ELSE <<(<<>>)>>
       /\ oTensors = IF given THEN <<0>> ELSE <<>>
       /\ oParams0 = IF given THEN <<0>> ELSE <<>>
  /\ paramObj = 0
  /\ oI = 0
  /\ oEst = <<>>
  /\ history = <<>>
  /\ oLog = [state |-> "unopened", rows |-> <<>>, ncalls |-> 0]
  /\ oEvents = <<>>
  /\ oFinish = <<>>
  /\ oK = <<>>

OIdle ==
  /\ opc = "done"
  /\ oOpts = [steps |-> 0, clip |-> 0, checkGradients |-> FALSE,
              logProgress |-> FALSE, checkpointParams |-> FALSE,
              onFinish |-> "default"]
  /\ oStructs = <<>>
  /\ oTensors = <<>>
  /\ oParams0 = <<>>
  /\ paramObj = 0
  /\ oI = 0
  /\ oEst = <<>>
  /\ history = <<>>
  /\ oLog = [state |-> "unopened", rows |-> <<>>, ncalls |-> 0]
  /\ oEvents = <<>>
  /\ oFinish = <<>>
  /\ oK = <<>>

\* optimize.js:30-105  the call of Optimize up to the start of the loop.
Optimize_Begin ==
  /\ UNCHANGED besidesO
  /\ opc = "idle"
  /\ LET c == InitialParamObj(oStructs, oTensors, OptionsParams)
     IN /\ oStructs' = c.structs
        /\ oTensors' = c.tensors
        /\ paramObj' = c.id
  /\ history' = <<>>
  /\ oLog' = IF oOpts.logProgress
               THEN [state |-> "open", rows |-> <<Header>>,
                     ncalls |-> 0]
               ELSE oLog
  /\ oEvents' = IF oOpts.logProgress
                  THEN <<Event("openSync", 0), Event("writeHeader", 0)>>
                  ELSE <<>>
  /\ oI' = 0
  /\ opc' = "loop"
  /\ UNCHANGED <<oOpts, oParams0, oEst, oFinish, oK>>

\* optimize.js:105-111  util.cpsLoop calls the loop body for the next i, and
\* the body calls the estimator with paramObj. The estimator registers in
\* paramObj the parameters the guide asks for that are not there yet, and
\* passes a gradient and an objective to its continuation.
Optimize_Estimator ==
  /\ UNCHANGED besidesO
  /\ opc = "loop"
  /\ ~cpsLoopDone(oOpts.steps, oI)
  /\ IF oStructs[paramObj] = <<>>
       THEN /\ oTensors' = Append(oTensors, 0)
            /\ oStructs' = [oStructs EXCEPT ![paramObj] = <<Len(oTensors) + 1>>]
       ELSE UNCHANGED <<oTensors, oStructs>>
  /\ \E r \in EstimatorResults :
       /\ oEst' = <<r>>
       /\ oEvents' = oEvents \o <<Event("estimator", oI),
                                   Event("gradObj", r.grad),
                                   Event("objective", r.objective)>>
  /\ opc' = "estimator"
  /\ UNCHANGED <<oOpts, oParams0, paramObj, oI, history, oLog, oFinish, oK>>

\* optimize.js:79-83  the throttled logProgress: whether a call writes its
\* row depends on options.logProgressThrottle and on the clock (with a wait
\* longer than the run no call writes); a row that is written takes the
\* count of the rows written before it as its index.
LogRow_NoCount(log, i, objective) ==
  [log EXCEPT !.rows = Append(@, <<log.ncalls, i, objective>>)]
LogRow(log, i, objective) ==
  [log EXCEPT !.rows = Append(@, <<log.ncalls, i, objective>>),
              !.ncalls = @ + 1]

\* optimize.js:111-141  the continuation of the estimator: one step.
Optimize_Step ==
  /\ UNCHANGED besidesO
  /\ opc = "estimator"
  /\ LET g == oEst[1].grad
         objective == oEst[1].objective
         e1 == IF oOpts.checkGradients THEN <<Event("checkGradients", g)>> ELSE <<>>
         clipped == GradAfterClip(oOpts, g)
         e2 == IF oOpts.clip # 0 THEN <<Event("clip", clipped)>> ELSE <<>>
     IN \E written \in BOOLEAN :
          /\ oLog' = IF oOpts.logProgress /\ written
                       THEN LogRow(oLog, oI, objective) ELSE oLog
          /\ history' = PushHistory(history, objective)
          /\ oTensors' = [j \in 1..Len(oTensors) |->
                            IF \E m \in 1..Len(oStructs[paramObj]) :
                                 oStructs[paramObj][m] = j
                              THEN oTensors[j] - clipped
                              ELSE oTensors[j]]
          /\ oEvents' = oEvents \o e1 \o e2
                        \o (IF oOpts.logProgress /\ written
                              THEN <<Event("writeRow", oLog.ncalls)>> ELSE <<>>)
                        \o (IF oOpts.checkpointParams
                              THEN <<Event("checkpointParams", oI)>> ELSE <<>>)
                        \o <<Event("history.push", objective),
                             Event("optimizer", clipped)>>
  /\ oI' = oI + 1
  /\ oEst' = <<>>
  /\ opc' = "loop"
  /\ UNCHANGED <<oOpts, oStructs, oParams0, paramObj, oFinish, oK>>

\* optimize.js:146-147,156  after the last step options.onFinish is called
\* with s, a continuation, a and {history}.
Optimize_OnFinish ==
  /\ UNCHANGED besidesO
  /\ opc = "loop"
  /\ cpsLoopDone(oOpts.steps, oI)
  /\ oEvents' = Append(oEvents, Event("onFinish", 0))
  /\ oFinish' = Append(oFinish, OnFinishArgs(history))
  /\ opc' = "onFinish"
  /\ UNCHANGED <<oOpts, oStructs, oTensors, oParams0, paramObj, oI, oEst,
                 history, oLog, oK>>

\* optimize.js:40,147-156  onFinish calls the continuation it was given: the
\* default one once, with the store it got, and returns what that call
\* returns; another one with a store of its choice, and as often as it
\* likes. The continuation closes the log file (149-151), saves the
\* parameters (152-154) and calls k (155). Once the file is closed logFile
\* is a stale descriptor number: fs.closeSync on it closes the file that
\* has got the number since, if there is one (a closeSync event with value
\* 1), and otherwise throws EBADF. The exception leaves the continuation
\* before k is called and arrives in onFinish, which either catches it and
\* goes on or lets it leave Optimize (the store given to a run that is left
\* by the exception is never used: it is taken to be s).
Optimize_Continue ==
  /\ UNCHANGED besidesO
  /\ opc = "onFinish"
  /\ ContinuationRuns < (IF oOpts.onFinish = "default" THEN 1 ELSE MaxContinues)
  /\ \E n \in (IF oOpts.onFinish = "default" THEN {1} ELSE {1, 2}),
        ebadf \in BOOLEAN, caught \in BOOLEAN :
       LET stale == oOpts.logProgress /\ oLog.state = "closed"
       IN
       IF stale /\ ebadf
         THEN /\ n = 1
              /\ oEvents' = oEvents \o <<Event("continue", n),
                                         Event("closeSync", 1),
                                         Event("EBADF", 0)>>
              /\ opc' = IF caught THEN "onFinish" ELSE "threw"
              /\ UNCHANGED <<oK, oLog>>
         ELSE /\ oK' = Append(oK, KArgs(StoreNames[n], paramObj))
              /\ oEvents' = oEvents \o <<Event("continue", n)>>
                               \o (IF oOpts.logProgress
                                     THEN <<Event("closeSync",
                                                  IF stale THEN 1 ELSE 0)>>
                                     ELSE <<>>)
                               \o (IF oOpts.checkpointParams
                                     THEN <<Event("saveParams", 0)>> ELSE <<>>)
                               \o <<Event("k", 0)>>
              /\ oLog' = IF oOpts.logProgress
                           THEN [oLog EXCEPT !.state = "closed"] ELSE oLog
              /\ opc' = IF oOpts.onFinish = "default" THEN "done"
                                                      ELSE "onFinish"
  /\ UNCHANGED <<oOpts, oStructs, oTensors, oParams0, paramObj, oI, oEst,
                 history, oFinish>>

\* A custom onFinish returns: after any number of calls of the continuation
\* it was given, none included.
Optimize_Abandon ==
  /\ UNCHANGED besidesO
  /\ opc = "onFinish"
  /\ oOpts.onFinish = "custom"
  /\ opc' = "done"
  /\ UNCHANGED <<oOpts, oStructs, oTensors, oParams0, paramObj, oI, oEst,
                 history, oLog, oEvents, oFinish, oK>>

ONext ==
  \/ Optimize_Begin
  \/ Optimize_Estimator
  \/ Optimize_Step
  \/ Optimize_OnFinish
  \/ Optimize_Continue
  \/ Optimize_Abandon

-----------------------------------------------------------------------------
(* Specifications *)

TInit == TStart /\ CIdle /\ RIdle /\ OIdle
SpecTrampoline == TInit /\ [][TNext]_vars
CInit == CStart /\ TIdle /\ RIdle /\ OIdle
SpecCompile == CInit /\ [][CNext]_vars
RInit == RStart /\ TIdle /\ CIdle /\ OIdle
SpecRun == RInit /\ [][RNext]_vars
OInit == OStart /\ TIdle /\ CIdle /\ RIdle
SpecOptimize == OInit /\ [][ONext]_vars

-----------------------------------------------------------------------------
(* Claims about compile *)

PassNames == [i \in 1..Len(cLog) |-> cLog[i].pass]
Applied(pass) == \E i \in 1..Len(cLog) : cLog[i].pass = pass
Before(a, b) ==
  /\ Applied(a) /\ Applied(b)
  /\ \A i, j \in 1..Len(cLog) :
       (cLog[i].pass = a /\ cLog[j].pass = b) => i < j
IsPrefix(p, q) == Len(p) <= Len(q) /\ p = SubSeq(q, 1, Len(p))
CachingUnits == {cLog[i].unit : i \in {j \in 1..Len(cLog) : cLog[j].pass = "caching"}}
\* The first pipeline stage of the current call has been applied.
PastCaching ==
  cpc \in {"concat", "freevars", "transforms", "generate"}
    \/ (cpc = "idle" /\ cCalls > 0)

\* C3 as stated: with default options the passes run in the order naming,
\* CPS, store, varargs, optimize, trampoline, and the caching pass, when it
\* is applied, runs last, after trampoline.
C3_SpecOrder ==
  (cpc = "generate" /\ cOptTransforms = <<>>) =>
    /\ Before("naming", "cps")
    /\ Before("cps", "store")
    /\ Before("store", "varargs")
    /\ Before("varargs", "optimize")
    /\ Before("optimize", "trampoline")
    /\ Applied("caching") => Before("trampoline", "caching")

RECURSIVE EligibleUnits(_)
EligibleUnits(u) ==
  IF u = 0 THEN <<>>
  ELSE EligibleUnits(u - 1) \o
       (IF hasNoCachingDirective(u) THEN <<>> ELSE <<"caching">>)

C3_ExpectedOrder ==
  <<"addFilename">>
  \o (IF doCaching THEN EligibleUnits(NUnits) ELSE <<>>)
  \o <<"concatPrograms">>
  \o (IF doCaching THEN <<"freevars">> ELSE <<>>)
  \o <<"thunkify", "naming", "cps", "store", "optimize", "varargs", "trampoline">>

\* C3 amended: with default options the passes of a compile call run, after
\* addFilename on the parsed program, in the order: caching (when some unit
\* requires it, on each unit without the no-caching directive),
\* concatPrograms, freevars (when caching is on),
\* thunkify, naming, cps, store, optimize, varargs, trampoline; each takes the
\* output of the one before. Optimize runs before varargs and caching runs
\* first, not last.
C3_PassOrder ==
  cOptTransforms = <<>> =>
    /\ IsPrefix(PassNames, C3_ExpectedOrder)
    /\ cpc = "generate" => PassNames = C3_ExpectedOrder

C3_WitnessDefaultWithCaching ==
  /\ cpc = "generate" /\ cOptTransforms = <<>>
  /\ Applied("caching") /\ Applied("trampoline")

\* C4 as stated: the caching transform is applied to a unit only if that
\* unit itself requests caching.
C4_OnlyRequestingUnits ==
  \A u \in CachingUnits : transformRequired(u)

\* C4 amended: the caching transform is applied to a unit exactly when some
\* unit of the compilation requests caching and the unit itself does not
\* carry the no-caching directive; so a unit that did not request caching is
\* transformed when another unit requested it, unless it opted out.
C4_CachingUnits ==
  /\ CachingUnits \subseteq 1..NUnits
  /\ cpc = "caching" => CachingUnits = {}
  /\ PastCaching =>
       CachingUnits =
         {u \in 1..NUnits : doCaching /\ ~hasNoCachingDirective(u)}

C4_WitnessOtherUnitOptedIn ==
  /\ PastCaching
  /\ \E u \in CachingUnits : ~transformRequired(u)
  /\ \E u \in 1..NUnits : hasNoCachingDirective(u) /\ u \notin CachingUnits

\* C5 as stated: whenever the caching transform is applied, the
\* free-variable analysis has already been run before it.
C5_FreevarsBeforeCaching ==
  \A i \in 1..Len(cLog) :
    cLog[i].pass = "caching" =>
      \E j \in 1..(i - 1) : cLog[j].pass = "freevars"

\* C5 amended: the free-variable analysis runs exactly in the compile calls
\* in which caching is on, once, on the concatenated program, after the
\* caching transform and concatPrograms and before the first transform of
\* the list; the caching transform itself runs with no free-variable
\* analysis done.
C5_FreevarsAfterCaching ==
  /\ \A i, j \in 1..Len(cLog) :
       /\ (cLog[i].pass = "freevars" /\ cLog[j].pass = "freevars") => i = j
       /\ (cLog[i].pass = "freevars"
             /\ cLog[j].pass \in {"addFilename", "caching", "concatPrograms"})
            => j < i
       /\ (cLog[i].pass = "freevars"
             /\ cLog[j].pass \notin {"addFilename", "caching", "concatPrograms",
                                     "freevars"})
            => i < j
  /\ Applied("freevars") => doCaching
  /\ (cpc \in {"transforms", "generate"} /\ doCaching) =>
       Applied("freevars") /\ Applied("concatPrograms")

C5_WitnessFreevarsRan ==
  /\ cpc = "generate"
  /\ Applied("caching") /\ Applied("freevars")

\* C9: whatever the transforms do to their input, every AST of
\* options.extra.asts is structurally what it was before the first compile
\* call, during and after every compile call that reuses it.
C9_ExtraAstsUnchanged ==
  \A i \in 1..Len(cExtra) : Tree(cHeap, cExtra[i]) = Tree(cHeap0, cExtra[i])

C9_WitnessRewrittenInPlace ==
  /\ cCalls >= 1 /\ cpc = "generate"
  /\ \A n \in Reach(cHeap, cAst) : cHeap[n].mark = "rewritten"

-----------------------------------------------------------------------------
(* Claims about run *)

C6_WitnessReported ==
  /\ rpc = "idle" /\ rThrown # <<>> /\ rGen
  /\ rThrown[1].exception \in Exceptions
  /\ rSteps >= 1 /\ rKCalls >= 1
  /\ Len(rReported) = 1 /\ rMap # 0
  /\ rOutcome = "returned"

C8_NoAmbientState ==
  (rpc = "program" /\ rSteps = 0) => issuedGradWarning = {}

\* C8 amended: the store is per run, but the runtime also keeps mutable state
\* at module level, which all runs of the process share: the properties
\* written on the global object stay there, and the table issuedGradWarning
\* holds, at any time, the key of every gradient warning printed by any run
\* so far.
C8_ModuleStateShared ==
  /\ issuedGradWarning =
       {GradKey(tr.name, tr.i, tr.problem) :
          tr \in {x \in AllTriples : rWarned[x] >= 1}}
  /\ rIssuedHere \subseteq issuedGradWarning
  /\ (HeaderGlobals \cup {"webpplEval"}) \subseteq rGlobals

C8_WitnessCarriedOver ==
  /\ rRuns >= 1 /\ rpc = "program" /\ rSteps = 0
  /\ issuedGradWarning # {} /\ rIssuedHere = {}

\* C10 as stated: every call of run invokes the compiled program exactly
\* once, with a store that is new and empty, the caller's k and the address
\* ''; no store is written by two runs and no run writes two stores.
C10_EveryRunInvokesOnce ==
  /\ Len(rCalls) <= 1
  /\ (rpc \in {"program", "catch"} \/ (rpc = "idle" /\ rOutcome # "none"))
       => Len(rCalls) = 1
  /\ \A j \in 1..Len(rCalls) :
       /\ rCalls[j].empty
       /\ rCalls[j].store = Len(rStores)
       /\ rCalls[j].k = rK
       /\ rCalls[j].a = ""
  /\ \A i \in 1..Len(rStores) : Cardinality(rStores[i]) <= 1
  /\ \A i, j \in 1..Len(rStores) :
       i # j => rStores[i] \cap rStores[j] = {}

\* C10 amended: a call of run in which compile returns generated code
\* invokes the compiled program exactly once, with a store that is new and
\* empty, the caller's k and the address ''; a call in which compile throws,
\* or returns no code (generateCode false: the call at main.js:197 throws a
\* TypeError, which is reported), invokes nothing; no store is written by
\* two runs and no run writes two stores.
C10_FreshStorePerRun ==
  /\ Len(rCalls) <= 1
  /\ rpc \in {"program", "catch"} => Len(rCalls) = (IF rGen THEN 1 ELSE 0)
  /\ (rpc = "idle" /\ rOutcome \in {"returned", "reporterThrew"})
       => Len(rCalls) = (IF rGen THEN 1 ELSE 0)
  /\ (rpc = "idle" /\ rOutcome = "threw") => rCalls = <<>>
  /\ (rpc = "idle" /\ ~rGen /\ rOutcome \in {"returned", "reporterThrew"})
       => rReported = <<[exception |-> "TypeError", map |-> rMap]>>
  /\ \A j \in 1..Len(rCalls) :
       /\ rCalls[j].empty
       /\ rCalls[j].store = Len(rStores)
       /\ rCalls[j].k = rK
       /\ rCalls[j].a = ""
  /\ \A i \in 1..Len(rStores) : Cardinality(rStores[i]) <= 1
  /\ \A i, j \in 1..Len(rStores) :
       i # j => rStores[i] \cap rStores[j] = {}

\* A second run has ended without invoking anything (no code generated),
\* after a first one that wrote its store.
C10_WitnessNothingInvoked ==
  /\ rRuns >= 2 /\ rpc = "idle" /\ ~rGen
  /\ rOutcome = "returned" /\ rCalls = <<>>
  /\ \E i \in 1..Len(rStores) : rStores[i] # {}

C10_WitnessTwoStores ==
  /\ rRuns >= 1 /\ rpc = "program" /\ Len(rCalls) = 1
  /\ Len(rStores) >= 2
  /\ \A i \in 1..Len(rStores) : rStores[i] # {}

\* C15: in one environment every (name, index, problem) that checkGradients
\* has met was warned about exactly once, and no other was warned about: the
\* first occurrence of a triple is always printed, later ones never.
C15_OncePerTriple ==
  \A tr \in AllTriples :
    rWarned[tr] = (IF tr \in rOccurred THEN 1 ELSE 0)

\* C16: for every call webpplEval(s, k, a, code) the program source that
\* was compiled is code, and the compiled function was invoked exactly once,
\* with the caller's s, k and a, the call yielding its result rather than
\* throwing.
C16_EvalCallingConvention ==
  \A j \in 1..Len(rEval) :
    /\ rEval[j].compiled = rEval[j].code
    /\ rEval[j].thrown = "none"
    /\ rEval[j].invoked = <<[source |-> rEval[j].code, s |-> rEval[j].s,
                             k |-> rEval[j].k, a |-> rEval[j].a]>>

-----------------------------------------------------------------------------
(* Claims about Optimize *)

\* C7: from the call of Optimize on, the object passed as options.params has
\* the value it had at the call; paramObj is another object and shares no
\* tensor with it; and every call of k passes paramObj.
C7_ParamsNotModified ==
  opc # "idle" =>
    /\ ParamValue(oStructs, oTensors, OptionsParams) = oParams0
    /\ paramObj # OptionsParams
    /\ \A m \in 1..Len(oStructs[paramObj]), n \in 1..Len(oStructs[OptionsParams]) :
         oStructs[paramObj][m] # oStructs[OptionsParams][n]
    /\ \A j \in 1..Len(oK) : oK[j].params = paramObj

C7_WitnessUpdated ==
  /\ opc = "done" /\ Len(oK) = 1 /\ oI = MaxSteps
  /\ oParams0 # <<>>
  /\ ParamValue(oStructs, oTensors, paramObj) # oParams0

\* The events of one kind, in the order they happened, and their values.
EventsOf(ev) == SelectSeq(oEvents, LAMBDA e : e.ev = ev)
Vals(events) == [j \in 1..Len(events) |-> events[j].val]
CountBefore(ev, p) == Cardinality({q \in 1..(p - 1) : oEvents[q].ev = ev})
PositionsOf(ev) == {p \in 1..Len(oEvents) : oEvents[p].ev = ev}
Between(ev, q, p) == {r \in (q + 1)..(p - 1) : oEvents[r].ev = ev}
\* The last event of a kind before position p, and the j-th call of k.
LastBefore(ev, p) ==
  CHOOSE q \in PositionsOf(ev) :
    q < p /\ \A r \in PositionsOf(ev) : r < p => r <= q
KPosition(j) == CHOOSE p \in PositionsOf("k") : CountBefore("k", p) = j - 1

\* C11: the estimator is started for i = 0, 1, ... in increasing order and at
\* most options.steps times; when the estimator of step i is started the
\* optimizer updates of all i earlier steps are done; and when the loop
\* continuation runs there were exactly options.steps steps and history holds
\* the objectives the estimator returned, step by step.
C11_StepsInOrder ==
  /\ Vals(EventsOf("estimator")) = [j \in 1..Len(EventsOf("estimator")) |-> j - 1]
  /\ Len(EventsOf("estimator")) <= oOpts.steps
  /\ \A p \in PositionsOf("estimator") :
       CountBefore("optimizer", p) = oEvents[p].val
  /\ Len(oFinish) > 0 =>
       /\ Len(EventsOf("estimator")) = oOpts.steps
       /\ Len(history) = oOpts.steps
       /\ history = Vals(EventsOf("objective"))
       /\ oFinish[1].history = Vals(EventsOf("objective"))

C11_WitnessTwoObjectives ==
  /\ Len(oFinish) = 1
  /\ oOpts.steps >= 2
  /\ history[1] # history[2]

\* C12: onFinish is called at most once, and exactly once when the steps are
\* over, with the original store, the original address and the history; k is
\* not called before onFinish nor during the steps; every call of k comes
\* from a run of the continuation given to onFinish, which calls k at most
\* once (not at all when it is left by an exception) and passes the store
\* onFinish handed to that run and the parameter object of the
\* optimization; and with the default onFinish the continuation runs once
\* and k is called exactly once, whatever the number of steps.
C12_CompletionProtocol ==
  /\ Len(oFinish) <= 1
  /\ opc \in {"onFinish", "done", "threw"} => Len(oFinish) = 1
  /\ \A j \in 1..Len(oFinish) :
       /\ oFinish[j].s = "s"
       /\ oFinish[j].a = "a"
       /\ oFinish[j].history = history
       /\ Len(EventsOf("estimator")) = oOpts.steps
  /\ opc \in {"idle", "loop", "estimator"} => oK = <<>>
  /\ oFinish = <<>> => oK = <<>>
  /\ Len(EventsOf("k")) = Len(oK)
  /\ Len(EventsOf("continue")) = Len(oK) + Len(EventsOf("EBADF"))
  /\ \A p \in PositionsOf("k") :
       /\ CountBefore("onFinish", p) = 1
       /\ CountBefore("continue", p) >= 1
       /\ Between("k", LastBefore("continue", p), p) = {}
       /\ Between("EBADF", LastBefore("continue", p), p) = {}
  /\ \A j \in 1..Len(oK) :
       /\ oK[j].s = StoreNames[oEvents[LastBefore("continue", KPosition(j))].val]
       /\ oK[j].params = paramObj
  /\ oOpts.onFinish = "default" =>
       /\ Len(EventsOf("continue")) <= 1
       /\ Len(oK) <= 1
       /\ opc # "threw"
       /\ opc = "done" => Len(oK) = 1

\* onFinish has run the continuation three times: k was called by the
\* first run and by the third, each with the store of its run, the second
\* run having been left by the exception of closeSync.
C12_WitnessStorePassedOn ==
  /\ opc = "done"
  /\ oOpts.steps >= 1
  /\ Len(oK) = 2
  /\ oK[1].s = "s" /\ oK[2].s = "s2"
  /\ Len(EventsOf("continue")) = 3
  /\ EventsOf("continue")[2].val = 1
  /\ CountBefore("EBADF", KPosition(2)) = 1
  /\ CountBefore("EBADF", KPosition(1)) = 0

\* The step an event at position p belongs to starts at the last estimator
\* event before p.
StepStart(p) ==
  CHOOSE q \in PositionsOf("estimator") :
    q < p /\ \A r \in PositionsOf("estimator") : r < p => r <= q

\* C13: in every step, up to the optimizer update: the gradient check runs
\* if and only if checkGradients is set and is given the gradient the
\* estimator returned; clipping runs if and only if clip is set, after the
\* check, and the optimizer is given the clipped gradient, whose norm is at
\* most the threshold (without clipping it is given the estimator's
\* gradient); and the objective of the step is pushed on history before the
\* update.
C13_OrderWithinStep ==
  \A p \in PositionsOf("optimizer") :
    LET q == StepStart(p)
        checks == Between("checkGradients", q, p)
        clips == Between("clip", q, p)
        pushes == Between("history.push", q, p)
        returned == oEvents[q + 1].val
    IN /\ oEvents[q + 1].ev = "gradObj"
       /\ Cardinality(checks) = (IF oOpts.checkGradients THEN 1 ELSE 0)
       /\ \A c \in checks : oEvents[c].val = returned
       /\ Cardinality(clips) = (IF oOpts.clip # 0 THEN 1 ELSE 0)
       /\ \A c \in checks, cl \in clips : c < cl
       /\ \A cl \in clips :
            /\ oEvents[p].val = oEvents[cl].val
            /\ norm(oEvents[p].val) <= oOpts.clip
       /\ clips = {} => oEvents[p].val = returned
       /\ Cardinality(pushes) = 1
       /\ \A h \in pushes : oEvents[h].val = oEvents[q + 2].val
       /\ oEvents[q + 2].ev = "objective"

C13_WitnessClippedAfterCheck ==
  \E p \in PositionsOf("optimizer") :
    /\ oOpts.checkGradients
    /\ oOpts.clip # 0
    /\ oEvents[StepStart(p) + 1].val > oOpts.clip
    /\ oEvents[p].val = oOpts.clip

FileEvents == {"openSync", "writeHeader", "writeRow", "closeSync"}

\* What C14 says of the file apart from how often it is closed: without
\* logProgress nothing is done to the file; with it the file is opened once,
\* first of all, and the header is written next; rows are written only
\* while the file is open and never after a close; the file is closed only
\* after all steps, and before any call of k; and the index column of the
\* rows counts 0, 1, 2, ...
LogFileUse ==
  IF oOpts.logProgress
    THEN /\ opc # "idle" =>
              /\ Len(oEvents) >= 2
              /\ oEvents[1].ev = "openSync"
              /\ oEvents[2].ev = "writeHeader"
              /\ PositionsOf("openSync") = {1}
              /\ PositionsOf("writeHeader") = {2}
              /\ oLog.rows[1] = Header
         /\ \A w \in PositionsOf("writeRow") :
              /\ w > 2
              /\ CountBefore("closeSync", w) = 0
         /\ \A c \in PositionsOf("closeSync") :
              /\ CountBefore("optimizer", c) = oOpts.steps
              /\ CountBefore("closeSync", c) = 0 => CountBefore("k", c) = 0
         /\ \A p \in PositionsOf("k") : CountBefore("closeSync", p) >= 1
         /\ Vals(EventsOf("writeRow")) =
              [j \in 1..Len(EventsOf("writeRow")) |-> j - 1]
         /\ Len(oLog.rows) = Len(EventsOf("writeRow")) + Len(EventsOf("writeHeader"))
         /\ \A j \in 2..Len(oLog.rows) : oLog.rows[j][1] = j - 2
         /\ oLog.state = (IF opc = "idle" THEN "unopened"
                           ELSE IF PositionsOf("closeSync") = {} THEN "open"
                           ELSE "closed")
    ELSE /\ \A p \in 1..Len(oEvents) : oEvents[p].ev \notin FileEvents
         /\ oLog = [state |-> "unopened", rows |-> <<>>, ncalls |-> 0]

\* C14 as stated: the above, and with logProgress the file is closed exactly
\* once by the time Optimize has nothing left to do.
C14_ClosedExactlyOnce ==
  /\ LogFileUse
  /\ oOpts.logProgress =>
       /\ Len(EventsOf("closeSync")) <= 1
       /\ opc = "done" => Len(EventsOf("closeSync")) = 1

\* C14, amended: the above, and with logProgress fs.closeSync is called by
\* the continuation Optimize gives to onFinish and nowhere else, once in each
\* run of it, first of all: exactly once with the default onFinish; not at
\* all, the file staying open, when onFinish does not call its
\* continuation; and again, on the descriptor of the file that is closed
\* already, when onFinish calls it again: only the first call closes the log
\* file, a later one throws before k is called or closes whatever file has
\* got the descriptor since.
C14_ClosedByContinuation ==
  /\ LogFileUse
  /\ oOpts.logProgress =>
       /\ Len(EventsOf("closeSync")) = Len(EventsOf("continue"))
       /\ \A p \in PositionsOf("closeSync") :
            /\ oEvents[p - 1].ev = "continue"
            /\ oEvents[p].val = (IF CountBefore("closeSync", p) = 0 THEN 0 ELSE 1)
       /\ \A p \in PositionsOf("EBADF") :
            /\ oEvents[p - 1].ev = "closeSync"
            /\ oEvents[p - 1].val = 1
            /\ p < Len(oEvents) => oEvents[p + 1].ev = "continue"
       /\ opc = "threw" => oEvents[Len(oEvents)].ev = "EBADF"
       /\ oOpts.onFinish = "default" =>
            /\ Len(EventsOf("closeSync")) <= 1
            /\ opc = "done" => Len(EventsOf("closeSync")) = 1
       /\ opc = "done" /\ oK = <<>> => oLog.state = "open"
  /\ ~oOpts.logProgress => EventsOf("EBADF") = <<>> /\ opc # "threw"

C14_WitnessLeftOpen ==
  /\ opc = "done"
  /\ oOpts.logProgress
  /\ Len(EventsOf("writeRow")) >= 2
  /\ oLog.state = "open"
  /\ oK = <<>>

-----------------------------------------------------------------------------
(* Claims about runTrampoline *)

TDone == tpc \in {"returned", "threw"}
Upto(n) == [i \in 1..n |-> i - 1]

\* C1 as stated: for every chain t0 -> ... -> tn -> v of at least one thunk,
\* runTrampoline invokes each thunk once, in order, and returns v to its
\* caller, whatever ordinary value v is.
C1_ReturnsFinalValue ==
  (TDone /\ tChain >= 1) =>
    /\ tpc = "returned"
    /\ tInvoked = Upto(tChain)
    /\ tResult = tFinal

\* C1 amended: each thunk of the chain is invoked exactly once, in order,
\* and none after the first result that is falsy; on a falsy final value the
\* loop ends and the caller gets undefined (never the final value itself);
\* on a truthy final value that is not callable the loop tries to call it
\* and a TypeError leaves runTrampoline.
C1_LoopResult ==
  /\ tInvoked = Upto(Len(tInvoked))
  /\ Len(tInvoked) <= tChain
  /\ TDone =>
       /\ tInvoked = Upto(tChain)
       /\ tFinal \in Falsy => tpc = "returned" /\ tResult = Undefined
       /\ tFinal \in TruthyNonCallable =>
            tpc = "threw" /\ tResult = Value("TypeError")

C1_WitnessFalsy ==
  tpc = "returned" /\ tChain = MaxChain /\ tFinal = Value("0")
    /\ tInvoked = Upto(MaxChain)

\* C2: the driver holds at most one thunk invocation open, and it is the
\* invocation of the thunk invoked last: thunk i+1 is entered only after
\* thunk i has returned; at most one thunk is pending or executing.
C2_OneItemWorkList ==
  /\ Len(tStack) <= 1
  /\ tStack # <<>> =>
       /\ tInvoked # <<>>
       /\ tStack[1] = tInvoked[Len(tInvoked)]
       /\ IsThunk(t) /\ t.id = tStack[1]
  /\ Cardinality({i \in 0..MaxChain : IsThunk(t) /\ t.id = i}
                  \cup {tStack[j] : j \in 1..Len(tStack)}) <= 1

C2_WitnessDeepChain ==
  tpc = "inThunk" /\ Len(tInvoked) = MaxChain /\ Len(tStack) = 1

====
